---- MODULE Spec2Model ----
(***************************************************************************)
(* Submission evaluation and ranking engine of the Analyzer App.           *)
(*                                                                         *)
(*   backend/utils/metrics.js        computeMetrics, compareCSVData        *)
(*   backend/routes/submissions.js   POST /upload                          *)
(*   backend/routes/leaderboard.js   GET /api/leaderboard                  *)
(*   backend/routes/admin.js         PUT /config, POST /answer-csv         *)
(*   backend/routes/auth.js          POST /login                           *)
(*                                                                         *)
(* MongoDB collections are sets (or sequences) of documents; every await   *)
(* of a handler is one atomic step, so handlers of different requests      *)
(* interleave at their awaits exactly as on the Node event loop.           *)
(* Metric values are numbers with six decimals, kept as integers in units  *)
(* of 10^-6 (accuracy 0.5 is 500000).                                      *)
(***************************************************************************)
EXTENDS Integers, Sequences, FiniteSets, TLC

VARIABLES
    userLimit,     \* User collection: uploadLimit of each participant ({} is null)
    cred,          \* credentials issued at login (the payload a request carries as
                   \* req.user), per participant ({} = not logged in)
    config,        \* Config collection: stored defaultUploadLimit ({} = no document)
    answers,       \* AnswerCSV collection, in natural (insertion) order
    submissions,   \* Submission collection
    reqs,          \* POST /upload requests: position and locals of each handler
    lb,            \* GET /api/leaderboard request: position, locals, response
    maxInFlight,   \* history: largest number of simultaneous uploads per participant
    quotaTrace,    \* history: "fixed", "raised" or "lowered" effective quota
    cmpUser,       \* compareCSVData input: the submission rows
    cmpAnswer,     \* compareCSVData input: the canonical rows
    cmpResult,     \* compareCSVData output ({} before the call)
    adminReqs,     \* POST /admin/answer-csv requests: position and locals
    users,         \* User collection: the participants that have a document
    userReqs       \* PUT and DELETE /admin/users/:id requests, per target participant

vars == <<userLimit, cred, config, answers, submissions, reqs, lb,
          maxInFlight, quotaTrace, cmpUser, cmpAnswer, cmpResult, adminReqs,
          users, userReqs>>

(***************************************************************************)
(* Bounds and program constants                                            *)
(***************************************************************************)
MaxReq == 2
MaxRows == 2
MaxRowId == 2
MaxPreviewRows == 22
MaxTriples == 3
DefaultLimit == 15
Decimals == 6
PreviewMismatches == 15
PreviewMatches == 5
PreviewTotal == 20
DefaultPage == 50

Users == {"u1", "u2"}
Labels == {"A", "B"}
RowIds == 1..MaxRowId
Rows == [row_id : RowIds, label : Labels]
Reqs == 1..MaxReq

Null == {}
IsNull(x) == x = {}
ValueOf(x) == CHOOSE v \in x : TRUE

RECURSIVE SeqsUpTo(_, _)
SeqsUpTo(S, n) ==
    IF n = 0 THEN {<<>>}
    ELSE LET shorter == SeqsUpTo(S, n - 1)
         IN  shorter \cup {Append(s, x) : s \in {t \in shorter : Len(t) = n - 1}, x \in S}

RowSeqs == SeqsUpTo(Rows, MaxRows)

(***************************************************************************)
(* Exact arithmetic: a ratio is <<numerator, denominator>>                 *)
(***************************************************************************)
RECURSIVE Gcd(_, _)
Gcd(a, b) == IF b = 0 THEN a ELSE Gcd(b, a % b)

Norm(r) ==
    IF r[1] = 0 THEN <<0, 1>>
    ELSE LET g == Gcd(r[1], r[2]) IN <<r[1] \div g, r[2] \div g>>

RAdd(a, b) == Norm(<<a[1] * b[2] + b[1] * a[2], a[2] * b[2]>>)

RDiv(a, n) == Norm(<<a[1], a[2] * n>>)

RECURSIVE RSum(_, _)
RSum(f, S) ==
    IF S = {} THEN <<0, 1>>
    ELSE LET x == CHOOSE y \in S : TRUE
         IN  RAdd(f[x], RSum(f, S \ {x}))

\* floor(n * 10^k / d) and the remainder, by long division
RECURSIVE Scale(_, _, _)
Scale(n, d, k) ==
    IF k = 0 THEN <<n \div d, n % d>>
    ELSE LET p == Scale(n, d, k - 1)
         IN  <<p[1] * 10 + (p[2] * 10) \div d, (p[2] * 10) % d>>

\* the digits after the sixth cut off
ToFixed_truncate(r) == Scale(r[1], r[2], Decimals)[1]

\* parseFloat(x.toFixed(6)) in units of 10^-6: round to nearest, half up
ToFixed(r) ==
    LET p == Scale(r[1], r[2], Decimals)
    IN  p[1] + (IF 2 * p[2] >= r[2] THEN 1 ELSE 0)

(***************************************************************************)
(* backend/utils/metrics.js                                                *)
(***************************************************************************)
Count(seq, P(_)) == Cardinality({i \in DOMAIN seq : P(seq[i])})

\* the division 0 / 0 carried out: NaN, written -1
ZeroMetrics_undefined ==
    [accuracy |-> -1, precision |-> -1, recall |-> -1, f1 |-> -1, matches |-> 0]

ZeroMetrics == [accuracy |-> 0, precision |-> 0, recall |-> 0, f1 |-> 0, matches |-> 0]

LabelPrecision(predictions, label) ==
    LET tp == Count(predictions, LAMBDA p : p.predicted = label /\ p.actual = label)
        fp == Count(predictions, LAMBDA p : p.predicted = label /\ p.actual # label)
    IN  IF tp + fp > 0 THEN Norm(<<tp, tp + fp>>) ELSE <<0, 1>>

\* a label that never occurs as actual given recall 1
LabelRecall_vacuous(predictions, label) ==
    LET tp == Count(predictions, LAMBDA p : p.predicted = label /\ p.actual = label)
        fn == Count(predictions, LAMBDA p : p.predicted # label /\ p.actual = label)
    IN  IF tp + fn > 0 THEN Norm(<<tp, tp + fn>>) ELSE <<1, 1>>

LabelRecall(predictions, label) ==
    LET tp == Count(predictions, LAMBDA p : p.predicted = label /\ p.actual = label)
        fn == Count(predictions, LAMBDA p : p.predicted # label /\ p.actual = label)
    IN  IF tp + fn > 0 THEN Norm(<<tp, tp + fn>>) ELSE <<0, 1>>

\* the labels of the ground truth only
AllLabels_actualOnly(predictions) ==
    {predictions[i].actual : i \in DOMAIN predictions}

AllLabels(predictions) ==
    {predictions[i].predicted : i \in DOMAIN predictions}
        \cup {predictions[i].actual : i \in DOMAIN predictions}

\* the arithmetic mean of precision and recall
F1Of_mean(avgPrecision, avgRecall) ==
    Norm(<<avgPrecision[1] * avgRecall[2] + avgRecall[1] * avgPrecision[2],
           2 * avgPrecision[2] * avgRecall[2]>>)

F1Of(avgPrecision, avgRecall) ==
    IF avgPrecision[1] > 0 \/ avgRecall[1] > 0
    THEN Norm(<<2 * avgPrecision[1] * avgRecall[1],
                avgPrecision[1] * avgRecall[2] + avgRecall[1] * avgPrecision[2]>>)
    ELSE <<0, 1>>

computeMetrics(predictions) ==
    IF Len(predictions) = 0 THEN ZeroMetrics
    ELSE
      LET total == Len(predictions)
          matches == Count(predictions, LAMBDA p : p.predicted = p.actual)
          labels == AllLabels(predictions)
          precisions == [l \in labels |-> LabelPrecision(predictions, l)]
          recalls == [l \in labels |-> LabelRecall(predictions, l)]
          avgPrecision == RDiv(RSum(precisions, labels), Cardinality(labels))
          avgRecall == RDiv(RSum(recalls, labels), Cardinality(labels))
      IN  [accuracy  |-> ToFixed(<<matches, total>>),
           precision |-> ToFixed(avgPrecision),
           recall    |-> ToFixed(avgRecall),
           f1        |-> ToFixed(F1Of(avgPrecision, avgRecall)),
           matches   |-> matches]

\* new Map(); rows.forEach(row => map.set(row.row_id, row.label)): the keys
MapKeys(rows) == {rows[i].row_id : i \in DOMAIN rows}

\* the label of the first row with the id kept
MapGet_first(rows, id) ==
    LET first == CHOOSE i \in DOMAIN rows :
                     /\ rows[i].row_id = id
                     /\ \A j \in DOMAIN rows : rows[j].row_id = id => i <= j
    IN  rows[first].label

\* map.get(id) after the forEach: the label set last
MapGet(rows, id) ==
    LET last == CHOOSE i \in DOMAIN rows :
                    /\ rows[i].row_id = id
                    /\ \A j \in DOMAIN rows : rows[j].row_id = id => j <= i
    IN  rows[last].label

Comparison(answerRow, userCSVData) ==
    LET predicted == MapGet(userCSVData, answerRow.row_id)
    IN  [row_id |-> answerRow.row_id, predicted |-> predicted,
         actual |-> answerRow.label, match |-> predicted = answerRow.label]

\* the join driven by the rows of the submission instead of the canonical rows
RECURSIVE Comparisons_userOrder(_, _, _)
Comparisons_userOrder(userCSVData, answerCSVData, i) ==
    IF i > Len(userCSVData) THEN <<>>
    ELSE LET rest == Comparisons_userOrder(userCSVData, answerCSVData, i + 1)
             id == userCSVData[i].row_id
             later == \E j \in DOMAIN userCSVData : j > i /\ userCSVData[j].row_id = id
         IN  IF id \in MapKeys(answerCSVData) /\ ~later
             THEN LET k == CHOOSE n \in DOMAIN answerCSVData : answerCSVData[n].row_id = id
                  IN  <<Comparison(answerCSVData[k], userCSVData)>> \o rest
             ELSE rest

RECURSIVE Comparisons(_, _, _)
Comparisons(userCSVData, answerCSVData, i) ==
    IF i > Len(answerCSVData) THEN <<>>
    ELSE LET rest == Comparisons(userCSVData, answerCSVData, i + 1)
         IN  IF answerCSVData[i].row_id \in MapKeys(userCSVData)
             THEN <<Comparison(answerCSVData[i], userCSVData)>> \o rest
             ELSE rest

RowIdsOf(rows) == [i \in DOMAIN rows |-> rows[i].row_id]

\* the id of the first canonical row never counted as missing
MissingInUser_distinct(userCSVData, answerCSVData) ==
    SelectSeq(RowIdsOf(answerCSVData),
              LAMBDA id : id \notin MapKeys(userCSVData) /\ id # answerCSVData[1].row_id)

MissingInUser(userCSVData, answerCSVData) ==
    SelectSeq(RowIdsOf(answerCSVData), LAMBDA id : id \notin MapKeys(userCSVData))

ExtraInUser(userCSVData, answerCSVData) ==
    SelectSeq(RowIdsOf(userCSVData), LAMBDA id : id \notin MapKeys(answerCSVData))

compareCSVData(userCSVData, answerCSVData) ==
    LET comparisons == Comparisons(userCSVData, answerCSVData, 1)
    IN  [comparisons      |-> comparisons,
         metrics          |-> computeMetrics(comparisons),
         rowsInCanonical  |-> Len(answerCSVData),
         rowsInSubmission |-> Len(userCSVData),
         rowsCompared     |-> Len(comparisons),
         missingRows      |-> Len(MissingInUser(userCSVData, answerCSVData)),
         extraRows        |-> Len(ExtraInUser(userCSVData, answerCSVData))]

(***************************************************************************)
(* Inputs of POST /api/submissions/upload                                  *)
(***************************************************************************)
Row(id, label) == [row_id |-> id, label |-> label]

NoFile == [kind |-> "none", rows |-> <<>>]
BadParse == [kind |-> "badparse", rows |-> <<>>]
BadColumns == [kind |-> "badcols", rows |-> <<>>]
CsvFile(rows) == [kind |-> "ok", rows |-> rows]

\* canonical answer sets an admin has stored
Canonicals == {<<Row(1, "A")>>, <<Row(1, "A"), Row(2, "B")>>}

\* uploaded files: empty, all right, half right, one row that is in the larger
\* canonical set only
UploadFiles ==
    {NoFile, BadParse, BadColumns, CsvFile(<<>>),
     CsvFile(<<Row(1, "A"), Row(2, "B")>>),
     CsvFile(<<Row(1, "A"), Row(2, "A")>>),
     CsvFile(<<Row(2, "B")>>)}

LimitValues == {Null, {1}, {2}}

LedgerUsers == {"u1"}
LedgerFiles == UploadFiles

(***************************************************************************)
(* backend/routes/submissions.js: POST /upload                             *)
(***************************************************************************)
Min(a, b) == IF a < b THEN a ELSE b

Slice(seq, n) == SubSeq(seq, 1, Min(n, Len(seq)))

\* the mismatches capped by the size of the whole preview only
Preview_lateCap(comparisons) ==
    LET mismatches == SelectSeq(comparisons, LAMBDA c : ~c.match)
        matches == SelectSeq(comparisons, LAMBDA c : c.match)
    IN  Slice(Slice(mismatches, PreviewTotal) \o Slice(matches, PreviewMatches),
              PreviewTotal)

Preview(comparisons) ==
    LET mismatches == SelectSeq(comparisons, LAMBDA c : ~c.match)
        matches == SelectSeq(comparisons, LAMBDA c : c.match)
    IN  Slice(Slice(mismatches, PreviewMismatches) \o Slice(matches, PreviewMatches),
              PreviewTotal)

NewSubmission(id, userId, comparisonResult, attemptNumber) ==
    [_id              |-> id,
     userId           |-> userId,
     rowsTotal        |-> comparisonResult.rowsCompared,
     matches          |-> comparisonResult.metrics.matches,
     accuracy         |-> comparisonResult.metrics.accuracy,
     precision        |-> comparisonResult.metrics.precision,
     recall           |-> comparisonResult.metrics.recall,
     f1               |-> comparisonResult.metrics.f1,
     fileDataPreview  |-> Preview(comparisonResult.comparisons),
     attemptNumber    |-> attemptNumber,
     rowsInCanonical  |-> comparisonResult.rowsInCanonical,
     rowsInSubmission |-> comparisonResult.rowsInSubmission,
     rowsCompared     |-> comparisonResult.rowsCompared,
     extraRows        |-> comparisonResult.extraRows,
     missingRows      |-> comparisonResult.missingRows]

\* Submission.countDocuments({ userId })
CountDocuments(userId) == Cardinality({s \in submissions : s.userId = userId})

\* no fallback when no value is stored: nobody may upload
ConfigLimit_noDefault(cfg) == IF IsNull(cfg) THEN 0 ELSE ValueOf(cfg)

\* uploadLimit = config ? config.value : 15
ConfigLimit(cfg) == IF IsNull(cfg) THEN DefaultLimit ELSE ValueOf(cfg)

\* the comparison off by one: a participant at the limit is let through
LimitReached_strict(userSubmissionCount, uploadLimit) == userSubmissionCount > uploadLimit

\* userSubmissionCount >= uploadLimit
LimitReached(userSubmissionCount, uploadLimit) == userSubmissionCount >= uploadLimit

IdleReq == [pc |-> "idle", user |-> {}, file |-> NoFile, answer |-> <<>>,
            count |-> 0, limit |-> {}, status |-> 0, error |-> ""]

\* the error member of the responses (the rows of the file and of the answer
\* set are locals that end with the handler)
NoFileError == "No file uploaded"
NotConfiguredError == "No canonical answer CSV has been uploaded yet"
LimitError == "Upload limit reached"
ParseError == "CSV parsing error"
ColumnsError == "CSV must contain row_id and label columns"
EmptyError == "CSV file is empty"
ServerError == "Failed to process submission"

Finish(req, status, error) ==
    [req EXCEPT !.pc = "done", !.status = status, !.error = error,
                !.file = [kind |-> @.kind, rows |-> <<>>], !.answer = <<>>]

InFlight(r) == reqs[r].pc \notin {"idle", "done"}

UserOf(r) == ValueOf(reqs[r].user).id

FlightsOf(rq, u) ==
    Cardinality({r \in Reqs : /\ rq[r].pc \notin {"idle", "done"}
                              /\ ValueOf(rq[r].user).id = u})

\* the file parsed and validated before the quota is checked
AfterLimit_parseFirst(req, uploadLimit) ==
    LET known == [req EXCEPT !.limit = {uploadLimit}]
    IN  IF req.file.kind = "badparse" THEN Finish(known, 400, ParseError)
        ELSE IF req.file.kind = "badcols" THEN Finish(known, 400, ColumnsError)
        ELSE IF Len(req.file.rows) = 0 THEN Finish(known, 400, EmptyError)
        ELSE IF LimitReached(req.count, uploadLimit) THEN Finish(known, 403, LimitError)
        ELSE [known EXCEPT !.pc = "save"]

\* the quota check left out
AfterLimit_unchecked(req, uploadLimit) ==
    LET known == [req EXCEPT !.limit = {uploadLimit}]
    IN  IF req.file.kind = "badparse" THEN Finish(known, 400, ParseError)
        ELSE IF req.file.kind = "badcols" THEN Finish(known, 400, ColumnsError)
        ELSE IF Len(req.file.rows) = 0 THEN Finish(known, 400, EmptyError)
        ELSE [known EXCEPT !.pc = "save"]

\* lines 53-96: the quota check, then parsing and validation of the file
AfterLimit(req, uploadLimit) ==
    LET known == [req EXCEPT !.limit = {uploadLimit}]
    IN  IF LimitReached(req.count, uploadLimit) THEN Finish(known, 403, LimitError)
        ELSE IF req.file.kind = "badparse" THEN Finish(known, 400, ParseError)
        ELSE IF req.file.kind = "badcols" THEN Finish(known, 400, ColumnsError)
        ELSE IF Len(req.file.rows) = 0 THEN Finish(known, 400, EmptyError)
        ELSE [known EXCEPT !.pc = "save"]

Unchanged_db == UNCHANGED <<userLimit, cred, config, answers>>
Unchanged_other == UNCHANGED <<lb, cmpUser, cmpAnswer, cmpResult, adminReqs, users, userReqs>>

\* lines 26-32: the request arrives with the credentials of a logged-in participant
UploadStart(r, u, f) ==
    /\ reqs[r].pc = "idle"
    /\ \A q \in Reqs : q < r => reqs[q].pc # "idle"
    /\ cred[u] # {}
    /\ LET req == [IdleReq EXCEPT !.user = {[id |-> u, uploadLimit |-> ValueOf(cred[u]).uploadLimit]},
                                  !.file = f]
           next == IF f.kind = "none" THEN Finish(req, 400, NoFileError)
                   ELSE [req EXCEPT !.pc = "findAnswer"]
       IN  /\ reqs' = [reqs EXCEPT ![r] = next]
           /\ maxInFlight' = [maxInFlight EXCEPT ![u] =
                  IF FlightsOf(reqs', u) > @ THEN FlightsOf(reqs', u) ELSE @]
    /\ UNCHANGED <<submissions, quotaTrace>>
    /\ Unchanged_db /\ Unchanged_other

\* lines 34-41: AnswerCSV.findOne()
UploadFindAnswer(r) ==
    /\ reqs[r].pc = "findAnswer"
    /\ reqs' = [reqs EXCEPT ![r] =
          IF Len(answers) = 0 THEN Finish(@, 400, NotConfiguredError)
          ELSE [@ EXCEPT !.pc = "count", !.answer = answers[1].data]]
    /\ UNCHANGED <<submissions, maxInFlight, quotaTrace>>
    /\ Unchanged_db /\ Unchanged_other

\* lines 43-48: Submission.countDocuments, then req.user.uploadLimit
UploadCount(r) ==
    /\ reqs[r].pc = "count"
    /\ LET counted == [reqs[r] EXCEPT !.count = CountDocuments(UserOf(r))]
           uploadLimit == ValueOf(reqs[r].user).uploadLimit
       IN  reqs' = [reqs EXCEPT ![r] =
              IF IsNull(uploadLimit) THEN [counted EXCEPT !.pc = "config"]
              ELSE AfterLimit(counted, ValueOf(uploadLimit))]
    /\ UNCHANGED <<submissions, maxInFlight, quotaTrace>>
    /\ Unchanged_db /\ Unchanged_other

\* lines 49-51: Config.findOne({ key: 'defaultUploadLimit' })
UploadConfig(r) ==
    /\ reqs[r].pc = "config"
    /\ reqs' = [reqs EXCEPT ![r] = AfterLimit(@, ConfigLimit(config))]
    /\ UNCHANGED <<submissions, maxInFlight, quotaTrace>>
    /\ Unchanged_db /\ Unchanged_other

\* the attempt numbered from the count without the increment
UploadSave_fromZero(r) ==
    /\ reqs[r].pc = "save"
    /\ LET comparisonResult == compareCSVData(reqs[r].file.rows, reqs[r].answer)
           attemptNumber == reqs[r].count
       IN  submissions' = submissions \cup
               {NewSubmission(r, UserOf(r), comparisonResult, attemptNumber)}
    /\ reqs' = [reqs EXCEPT ![r].pc = "saved"]
    /\ UNCHANGED <<maxInFlight, quotaTrace>>
    /\ Unchanged_db /\ Unchanged_other

\* lines 98-131: compare, number the attempt, build the preview, submission.save()
UploadSave(r) ==
    /\ reqs[r].pc = "save"
    /\ LET comparisonResult == compareCSVData(reqs[r].file.rows, reqs[r].answer)
           attemptNumber == reqs[r].count + 1
       IN  submissions' = submissions \cup
               {NewSubmission(r, UserOf(r), comparisonResult, attemptNumber)}
    /\ reqs' = [reqs EXCEPT ![r].pc = "saved"]
    /\ UNCHANGED <<maxInFlight, quotaTrace>>
    /\ Unchanged_db /\ Unchanged_other

\* lines 133-161: remove the uploaded file, answer 200
UploadRespond(r) ==
    /\ reqs[r].pc = "saved"
    /\ reqs' = [reqs EXCEPT ![r] = Finish(@, 200, "")]
    /\ UNCHANGED <<submissions, maxInFlight, quotaTrace>>
    /\ Unchanged_db /\ Unchanged_other

\* lines 163-172: an awaited call rejects, or fs.unlinkSync / res.json throws after
\* the save: the catch block answers 500
UploadThrow(r) ==
    /\ InFlight(r)
    /\ reqs' = [reqs EXCEPT ![r] = Finish(@, 500, ServerError)]
    /\ UNCHANGED <<submissions, maxInFlight, quotaTrace>>
    /\ Unchanged_db /\ Unchanged_other

(***************************************************************************)
(* backend/routes/admin.js: PUT /config                                    *)
(***************************************************************************)
\* the quota an upload by u arriving now would resolve
EffectiveQuota(credentials, cfg, u) ==
    LET uploadLimit == ValueOf(credentials[u]).uploadLimit
    IN  IF IsNull(uploadLimit) THEN ConfigLimit(cfg) ELSE ValueOf(uploadLimit)

TraceAfter(trace, old, new) ==
    IF new < old THEN "lowered"
    ELSE IF new > old /\ trace = "fixed" THEN "raised"
    ELSE trace

PutConfig(value) ==
    /\ config' = {value}
    /\ quotaTrace' = [u \in Users |->
          IF cred[u] = {} THEN quotaTrace[u]
          ELSE TraceAfter(quotaTrace[u], EffectiveQuota(cred, config, u),
                          EffectiveQuota(cred, config', u))]
    /\ UNCHANGED <<userLimit, cred, answers, submissions, reqs, maxInFlight>>
    /\ Unchanged_other

(***************************************************************************)
(* backend/routes/admin.js: POST /answer-csv                               *)
(***************************************************************************)
Admins == {"a1", "a2"}

IdleAdmin == [pc |-> "idle", data |-> <<>>, status |-> 0]

\* lines 188-230: the file is read, parsed and validated
AnswerCsvStart(a, f) ==
    /\ adminReqs[a].pc = "idle"
    /\ adminReqs' = [adminReqs EXCEPT ![a] =
          IF f.kind # "ok" \/ Len(f.rows) = 0
          THEN [@ EXCEPT !.pc = "done", !.status = 400]
          ELSE [@ EXCEPT !.pc = "delete", !.data = f.rows]]
    /\ UNCHANGED <<userLimit, cred, config, answers, submissions, reqs, lb,
                   maxInFlight, quotaTrace, cmpUser, cmpAnswer, cmpResult,
                   users, userReqs>>

\* line 233: AnswerCSV.deleteMany({})
AnswerCsvDelete(a) ==
    /\ adminReqs[a].pc = "delete"
    /\ answers' = <<>>
    /\ adminReqs' = [adminReqs EXCEPT ![a].pc = "save"]
    /\ UNCHANGED <<userLimit, cred, config, submissions, reqs, lb,
                   maxInFlight, quotaTrace, cmpUser, cmpAnswer, cmpResult,
                   users, userReqs>>

\* a replacement that scores the stored submissions again
AnswerCsvSave_rescore(a) ==
    /\ adminReqs[a].pc = "save"
    /\ answers' = Append(answers, [data |-> adminReqs[a].data])
    /\ submissions' = {[s EXCEPT !.accuracy = 0, !.matches = 0] : s \in submissions}
    /\ adminReqs' = [adminReqs EXCEPT ![a].pc = "saved"]
    /\ UNCHANGED <<userLimit, cred, config, reqs, lb,
                   maxInFlight, quotaTrace, cmpUser, cmpAnswer, cmpResult,
                   users, userReqs>>

\* lines 236-243: new AnswerCSV({ ..., data, columns }) and answerCSV.save()
AnswerCsvSave(a) ==
    /\ adminReqs[a].pc = "save"
    /\ answers' = Append(answers, [data |-> adminReqs[a].data])
    /\ adminReqs' = [adminReqs EXCEPT ![a].pc = "saved"]
    /\ UNCHANGED <<userLimit, cred, config, submissions, reqs, lb,
                   maxInFlight, quotaTrace, cmpUser, cmpAnswer, cmpResult,
                   users, userReqs>>

\* lines 245-252: the uploaded file is removed, the answer is 200
AnswerCsvRespond(a) ==
    /\ adminReqs[a].pc = "saved"
    /\ adminReqs' = [adminReqs EXCEPT ![a] = [@ EXCEPT !.pc = "done", !.status = 200, !.data = <<>>]]
    /\ UNCHANGED <<userLimit, cred, config, answers, submissions, reqs, lb,
                   maxInFlight, quotaTrace, cmpUser, cmpAnswer, cmpResult,
                   users, userReqs>>

\* lines 254-263: deleteMany or save rejects, or unlinkSync throws: 500
AnswerCsvThrow(a) ==
    /\ adminReqs[a].pc \in {"delete", "save", "saved"}
    /\ adminReqs' = [adminReqs EXCEPT ![a] = [@ EXCEPT !.pc = "done", !.status = 500, !.data = <<>>]]
    /\ UNCHANGED <<userLimit, cred, config, answers, submissions, reqs, lb,
                   maxInFlight, quotaTrace, cmpUser, cmpAnswer, cmpResult,
                   users, userReqs>>

(***************************************************************************)
(* backend/routes/admin.js: PUT /users/:id, DELETE /users/:id              *)
(* backend/routes/auth.js: POST /login                                     *)
(***************************************************************************)
IdleUserReq == [pc |-> "idle", op |-> "", value |-> {}, status |-> 0]

Unchanged_users ==
    UNCHANGED <<config, answers, reqs, lb, maxInFlight, cmpUser, cmpAnswer,
                cmpResult, adminReqs>>

\* POST /login: User.findOne({ email }), then the session (or token) payload is
\* built from the document: id, email, teamName, role, uploadLimit
Login(u) ==
    /\ u \in users
    /\ cred' = [cred EXCEPT ![u] = {[uploadLimit |-> userLimit[u]]}]
    /\ quotaTrace' = [quotaTrace EXCEPT ![u] =
          IF cred[u] = {} THEN @
          ELSE TraceAfter(@, EffectiveQuota(cred, config, u), EffectiveQuota(cred', config, u))]
    /\ UNCHANGED <<userLimit, submissions, users, userReqs>>
    /\ Unchanged_users

\* PUT /users/:id, lines 116-128: User.findById(id), 404 when there is none;
\* value is the uploadLimit of the body (a number or null)
UserPutFind(u, value) ==
    /\ userReqs[u].pc = "idle"
    /\ userReqs' = [userReqs EXCEPT ![u] =
          IF u \in users
          THEN [@ EXCEPT !.pc = "putSave", !.op = "put", !.value = {value}]
          ELSE [@ EXCEPT !.pc = "done", !.op = "put", !.status = 404]]
    /\ UNCHANGED <<userLimit, cred, submissions, quotaTrace, users>>
    /\ Unchanged_users

\* PUT /users/:id, lines 128-146: user.uploadLimit = uploadLimit, user.save(), 200
UserPutSave(u) ==
    /\ userReqs[u].pc = "putSave"
    /\ userLimit' = [userLimit EXCEPT ![u] = ValueOf(userReqs[u].value)]
    /\ userReqs' = [userReqs EXCEPT ![u] = [@ EXCEPT !.pc = "done", !.status = 200]]
    /\ UNCHANGED <<cred, submissions, quotaTrace, users>>
    /\ Unchanged_users

\* DELETE /users/:id, lines 163-171: the target is not the admin's own account;
\* User.findByIdAndDelete(id), 404 when there is none
UserDeleteFind(u) ==
    /\ userReqs[u].pc = "idle"
    /\ u \notin Admins
    /\ users' = users \ {u}
    /\ userReqs' = [userReqs EXCEPT ![u] =
          IF u \in users
          THEN [@ EXCEPT !.pc = "deleteSubs", !.op = "delete"]
          ELSE [@ EXCEPT !.pc = "done", !.op = "delete", !.status = 404]]
    /\ UNCHANGED <<userLimit, cred, submissions, quotaTrace>>
    /\ Unchanged_users

\* DELETE /users/:id, lines 174-176: Submission.deleteMany({ userId: id }), 200
UserDeleteSubs(u) ==
    /\ userReqs[u].pc = "deleteSubs"
    /\ submissions' = {s \in submissions : s.userId # u}
    /\ userReqs' = [userReqs EXCEPT ![u] = [@ EXCEPT !.pc = "done", !.status = 200]]
    /\ UNCHANGED <<userLimit, cred, quotaTrace, users>>
    /\ Unchanged_users

\* lines 148-151 and 178-181: user.save() or deleteMany rejects: 500
UserThrow(u) ==
    /\ userReqs[u].pc \in {"putSave", "deleteSubs"}
    /\ userReqs' = [userReqs EXCEPT ![u] = [@ EXCEPT !.pc = "done", !.status = 500]]
    /\ UNCHANGED <<userLimit, cred, submissions, quotaTrace, users>>
    /\ Unchanged_users

(***************************************************************************)
(* backend/routes/leaderboard.js: GET /api/leaderboard                     *)
(***************************************************************************)
IdleLb == [pc |-> "idle", me |-> {}, limit |-> 0, includeRank |-> FALSE,
           leaderboard |-> <<>>, userRank |-> {}, totalEntries |-> 0, status |-> 0]

\* $sort: { accuracy: -1, f1: -1 }: a may come before b
SortsBefore(a, b) ==
    \/ a.accuracy > b.accuracy
    \/ a.accuracy = b.accuracy /\ a.f1 >= b.f1

\* $group with $last instead of $first: the document the sort puts last
FirstOf_last(subs, userId) ==
    {s \in subs : /\ s.userId = userId
                  /\ \A t \in subs : t.userId = userId => SortsBefore(t, s)}

\* $sort then $group with $first: the document of userId that the sort puts first;
\* documents equal in accuracy and f1 come in an order MongoDB does not fix
FirstOf(subs, userId) ==
    {s \in subs : /\ s.userId = userId
                  /\ \A t \in subs : t.userId = userId => SortsBefore(s, t)}

Group(s) ==
    [_id |-> s.userId, bestAccuracy |-> s.accuracy, bestF1 |-> s.f1,
     bestPrecision |-> s.precision, bestRecall |-> s.recall,
     bestSubmissionId |-> s._id, attemptNumber |-> s.attemptNumber]

\* $sort: { bestAccuracy: -1, bestF1: -1 }
GroupSortsBefore(a, b) ==
    \/ a.bestAccuracy > b.bestAccuracy
    \/ a.bestAccuracy = b.bestAccuracy /\ a.bestF1 >= b.bestF1

IsSorted(seq) ==
    \A i, j \in DOMAIN seq : i < j => GroupSortsBefore(seq[i], seq[j])

\* the results the pipeline $sort, $group, $sort can produce on subs
Rankings(subs) ==
    LET ids == {s.userId : s \in subs}
        n == Cardinality(ids)
        picks == {f \in [ids -> subs] : \A u \in ids : f[u] \in FirstOf(subs, u)}
        orders == {o \in [1..n -> ids] : \A i, j \in 1..n : i # j => o[i] # o[j]}
    IN  {seq \in {[i \in 1..n |-> Group(f[o[i]])] : f \in picks, o \in orders} :
            IsSorted(seq)}

\* limit = parseInt(req.query.limit) || 50
PageLimit(param) == IF param = 0 THEN DefaultPage ELSE param

\* the rank taken as the index of map, which starts at 0
Entries_zeroBased(leaderboardData) ==
    [i \in DOMAIN leaderboardData |->
        [rank          |-> i - 1,
         userId        |-> leaderboardData[i]._id,
         accuracy      |-> leaderboardData[i].bestAccuracy,
         f1            |-> leaderboardData[i].bestF1,
         precision     |-> leaderboardData[i].bestPrecision,
         recall        |-> leaderboardData[i].bestRecall,
         attemptNumber |-> leaderboardData[i].attemptNumber]]

\* leaderboardData.map((entry, index) => ({ rank: index + 1, ... }))
Entries(leaderboardData) ==
    [i \in DOMAIN leaderboardData |->
        [rank          |-> i,
         userId        |-> leaderboardData[i]._id,
         accuracy      |-> leaderboardData[i].bestAccuracy,
         f1            |-> leaderboardData[i].bestF1,
         precision     |-> leaderboardData[i].bestPrecision,
         recall        |-> leaderboardData[i].bestRecall,
         attemptNumber |-> leaderboardData[i].attemptNumber]]

\* a participant who is not ranked reported with rank 0
UserRank_zero(allRankings, currentUserId) ==
    LET found == {i \in DOMAIN allRankings : allRankings[i]._id = currentUserId}
    IN  IF found = {}
        THEN {[rank |-> 0, accuracy |-> 0, f1 |-> 0, totalUsers |-> Len(allRankings)]}
        ELSE LET rankIndex == CHOOSE i \in found : \A j \in found : i <= j
             IN  {[rank       |-> rankIndex,
                   accuracy   |-> allRankings[rankIndex].bestAccuracy,
                   f1         |-> allRankings[rankIndex].bestF1,
                   totalUsers |-> Len(allRankings)]}

\* allRankings.findIndex(...) and the userRank object
UserRank(allRankings, currentUserId) ==
    LET found == {i \in DOMAIN allRankings : allRankings[i]._id = currentUserId}
    IN  IF found = {} THEN {}
        ELSE LET rankIndex == CHOOSE i \in found : \A j \in found : i <= j
             IN  {[rank       |-> rankIndex,
                   accuracy   |-> allRankings[rankIndex].bestAccuracy,
                   f1         |-> allRankings[rankIndex].bestF1,
                   totalUsers |-> Len(allRankings)]}

Unchanged_lb ==
    UNCHANGED <<userLimit, cred, config, answers, submissions, reqs,
                maxInFlight, quotaTrace, cmpUser, cmpAnswer, cmpResult, adminReqs,
                users, userReqs>>

\* lines 14-18: the query parameters and the requesting participant, if any
LbStart(me, param, includeRank) ==
    /\ lb.pc \in {"idle", "done"}
    /\ \A u \in me : cred[u] # {}
    /\ lb' = [IdleLb EXCEPT !.pc = "aggregate", !.me = me,
                            !.limit = PageLimit(param), !.includeRank = includeRank]
    /\ Unchanged_lb

\* lines 20-69: the first aggregate with $limit, then the ranked entries
LbAggregate ==
    /\ lb.pc = "aggregate"
    /\ \E ranking \in Rankings(submissions) :
          LET leaderboardData == Slice(ranking, lb.limit)
              listed == [lb EXCEPT !.leaderboard = Entries(leaderboardData),
                                   !.totalEntries = Len(leaderboardData)]
          IN  lb' = IF lb.includeRank /\ lb.me # {}
                    THEN [listed EXCEPT !.pc = "rank"]
                    ELSE [listed EXCEPT !.pc = "done", !.status = 200]
    /\ Unchanged_lb

\* lines 71-109: the second aggregate, without $limit, and the response
LbRank ==
    /\ lb.pc = "rank"
    /\ \E allRankings \in Rankings(submissions) :
          lb' = [lb EXCEPT !.pc = "done", !.status = 200,
                           !.userRank = UserRank(allRankings, ValueOf(lb.me))]
    /\ Unchanged_lb

\* lines 111-114: an aggregate rejects
LbThrow ==
    /\ lb.pc \in {"aggregate", "rank"}
    /\ lb' = [IdleLb EXCEPT !.pc = "done", !.status = 500]
    /\ Unchanged_lb

(***************************************************************************)
(* Specification of the upload ledger: every participant is logged in with *)
(* the limit of the User document, one canonical set or none is stored.    *)
(***************************************************************************)
AnswerDoc(data) == [data |-> data]

InitIdle ==
    /\ submissions = {}
    /\ reqs = [r \in Reqs |-> IdleReq]
    /\ lb = IdleLb
    /\ maxInFlight = [u \in Users |-> 0]
    /\ quotaTrace = [u \in Users |-> "fixed"]
    /\ cmpUser = <<>>
    /\ cmpAnswer = <<>>
    /\ cmpResult = {}
    /\ adminReqs = [a \in Admins |-> IdleAdmin]
    /\ users = Users
    /\ userReqs = [u \in Users |-> IdleUserReq]

Init ==
    /\ userLimit \in [Users -> LimitValues]
    /\ userLimit["u2"] = Null
    /\ cred = [u \in Users |-> {[uploadLimit |-> userLimit[u]]}]
    /\ config \in LimitValues
    /\ answers \in {<<>>} \cup {<<AnswerDoc(c)>> : c \in Canonicals}
    /\ InitIdle

Next ==
    \/ \E r \in Reqs, u \in LedgerUsers, f \in LedgerFiles : UploadStart(r, u, f)
    \/ \E r \in Reqs : UploadFindAnswer(r)
    \/ \E r \in Reqs : UploadCount(r)
    \/ \E r \in Reqs : UploadConfig(r)
    \/ \E r \in Reqs : UploadSave(r)
    \/ \E r \in Reqs : UploadRespond(r)
    \/ \E r \in Reqs : UploadThrow(r)

Spec == Init /\ [][Next]_vars

(***************************************************************************)
(* Specification of the quota: one participant uploads while an admin      *)
(* changes the stored default limit.                                       *)
(***************************************************************************)
QuotaFiles == {BadParse, CsvFile(<<Row(1, "A"), Row(2, "B")>>)}

InitQuota ==
    /\ userLimit \in [Users -> LimitValues]
    /\ userLimit["u2"] = Null
    /\ cred = [u \in Users |-> {[uploadLimit |-> userLimit[u]]}]
    /\ config \in LimitValues
    /\ answers = <<AnswerDoc(<<Row(1, "A"), Row(2, "B")>>)>>
    /\ InitIdle

NextQuota ==
    \/ \E r \in Reqs, u \in LedgerUsers, f \in QuotaFiles : UploadStart(r, u, f)
    \/ \E r \in Reqs : UploadFindAnswer(r)
    \/ \E r \in Reqs : UploadCount(r)
    \/ \E r \in Reqs : UploadConfig(r)
    \/ \E r \in Reqs : UploadSave(r)
    \/ \E r \in Reqs : UploadRespond(r)
    \/ \E r \in Reqs : UploadThrow(r)
    \/ \E v \in 1..2 : PutConfig(v)

SpecQuota == InitQuota /\ [][NextQuota]_vars

(***************************************************************************)
(* Specification of the leaderboard: uploads of two participants against   *)
(* one canonical set, leaderboard and best-submission requests.            *)
(***************************************************************************)
RankedFiles ==
    {CsvFile(<<Row(1, "A"), Row(2, "B")>>), CsvFile(<<Row(1, "A"), Row(2, "A")>>)}

\* the two submissions participant u2 has made before: half right, then all right
Earlier ==
    LET canonical == <<Row(1, "A"), Row(2, "B")>>
    IN  {NewSubmission(-1, "u2", compareCSVData(<<Row(1, "A"), Row(2, "A")>>, canonical), 1),
         NewSubmission(0, "u2", compareCSVData(canonical, canonical), 2)}

InitLB ==
    /\ userLimit = [u \in Users |-> {2}]
    /\ cred = [u \in Users |-> {[uploadLimit |-> userLimit[u]]}]
    /\ config = Null
    /\ answers = <<AnswerDoc(<<Row(1, "A"), Row(2, "B")>>)>>
    /\ submissions \in {{}, Earlier}
    /\ reqs = [r \in Reqs |-> IdleReq]
    /\ lb = IdleLb
    /\ maxInFlight = [u \in Users |-> 0]
    /\ quotaTrace = [u \in Users |-> "fixed"]
    /\ cmpUser = <<>>
    /\ cmpAnswer = <<>>
    /\ cmpResult = {}
    /\ adminReqs = [a \in Admins |-> IdleAdmin]
    /\ users = Users
    /\ userReqs = [u \in Users |-> IdleUserReq]

NextLB ==
    \/ \E r \in Reqs, u \in Users, f \in RankedFiles : UploadStart(r, u, f)
    \/ \E r \in Reqs : UploadFindAnswer(r)
    \/ \E r \in Reqs : UploadCount(r)
    \/ \E r \in Reqs : UploadSave(r)
    \/ \E r \in Reqs : UploadRespond(r)
    \/ \E me \in {{}, {"u1"}}, param \in 0..1, includeRank \in BOOLEAN :
          LbStart(me, param, includeRank)
    \/ LbAggregate
    \/ LbRank
    \/ LbThrow

SpecLB == InitLB /\ [][NextLB]_vars

(***************************************************************************)
(* Specification of the comparison: compareCSVData applied to every pair   *)
(* of row sequences within the bounds; a stored canonical set has at least *)
(* one row (admin.js rejects an empty answer CSV).                         *)
(***************************************************************************)
InitCmp ==
    /\ cmpUser \in RowSeqs
    /\ cmpAnswer \in RowSeqs \ {<<>>}
    /\ cmpResult = {}
    /\ userLimit = [u \in Users |-> Null]
    /\ cred = [u \in Users |-> {}]
    /\ config = Null
    /\ answers = <<>>
    /\ submissions = {}
    /\ reqs = [r \in Reqs |-> IdleReq]
    /\ lb = IdleLb
    /\ maxInFlight = [u \in Users |-> 0]
    /\ quotaTrace = [u \in Users |-> "fixed"]
    /\ adminReqs = [a \in Admins |-> IdleAdmin]
    /\ users = Users
    /\ userReqs = [u \in Users |-> IdleUserReq]

Compare ==
    /\ cmpResult = {}
    /\ cmpResult' = {compareCSVData(cmpUser, cmpAnswer)}
    /\ UNCHANGED <<userLimit, cred, config, answers, submissions, reqs, lb,
                   maxInFlight, quotaTrace, cmpUser, cmpAnswer, adminReqs,
                   users, userReqs>>

NextCmp == Compare

SpecCmp == InitCmp /\ [][NextCmp]_vars

(***************************************************************************)
(* Specification of the metrics: computeMetrics, reached through           *)
(* compareCSVData, on every list of up to MaxTriples triples over three    *)
(* labels (row i of the canonical set carries actual[i], row i of the      *)
(* submission predicted[i]).                                               *)
(***************************************************************************)
MetricLabels == {"A", "B", "C"}

InitMetrics ==
    /\ \E n \in 0..MaxTriples :
          \E actual \in [1..n -> MetricLabels], predicted \in [1..n -> MetricLabels] :
              /\ cmpAnswer = [i \in 1..n |-> Row(i, actual[i])]
              /\ cmpUser = [i \in 1..n |-> Row(i, predicted[i])]
    /\ cmpResult = {}
    /\ userLimit = [u \in Users |-> Null]
    /\ cred = [u \in Users |-> {}]
    /\ config = Null
    /\ answers = <<>>
    /\ submissions = {}
    /\ reqs = [r \in Reqs |-> IdleReq]
    /\ lb = IdleLb
    /\ maxInFlight = [u \in Users |-> 0]
    /\ quotaTrace = [u \in Users |-> "fixed"]
    /\ adminReqs = [a \in Admins |-> IdleAdmin]
    /\ users = Users
    /\ userReqs = [u \in Users |-> IdleUserReq]

SpecMetrics == InitMetrics /\ [][NextCmp]_vars

(***************************************************************************)
(* Specification of the preview: lines 98-131 of POST /upload applied to   *)
(* files of up to MaxPreviewRows rows, in which the wrong rows are the     *)
(* first k, all but the first k, all but every k-th, or every k-th.        *)
(***************************************************************************)
Layouts == {"head", "tail", "every", "sparse"}

Wrong(layout, k, i) ==
    CASE layout = "head"   -> i <= k
      [] layout = "tail"   -> i > k
      [] layout = "every"  -> i % (k + 1) # 0
      [] layout = "sparse" -> i % (k + 1) = 0

PreviewCanonical(n) == [i \in 1..n |-> Row(i, "A")]

PreviewUpload(n, k, layout) ==
    [i \in 1..n |-> Row(i, IF Wrong(layout, k, i) THEN "B" ELSE "A")]

InitPreview ==
    /\ \E n \in 1..MaxPreviewRows, k \in 0..MaxPreviewRows, layout \in Layouts :
          /\ cmpAnswer = PreviewCanonical(n)
          /\ cmpUser = PreviewUpload(n, k, layout)
    /\ cmpResult = {}
    /\ userLimit = [u \in Users |-> Null]
    /\ cred = [u \in Users |-> {}]
    /\ config = Null
    /\ answers = <<>>
    /\ submissions = {}
    /\ reqs = [r \in Reqs |-> IdleReq]
    /\ lb = IdleLb
    /\ maxInFlight = [u \in Users |-> 0]
    /\ quotaTrace = [u \in Users |-> "fixed"]
    /\ adminReqs = [a \in Admins |-> IdleAdmin]
    /\ users = Users
    /\ userReqs = [u \in Users |-> IdleUserReq]

\* lines 98-129: the comparison, the preview and the Submission document
Evaluate ==
    /\ cmpResult = {}
    /\ cmpResult' = {NewSubmission(0, "u1", compareCSVData(cmpUser, cmpAnswer), 1)}
    /\ UNCHANGED <<userLimit, cred, config, answers, submissions, reqs, lb,
                   maxInFlight, quotaTrace, cmpUser, cmpAnswer, adminReqs,
                   users, userReqs>>

NextPreview == Evaluate

SpecPreview == InitPreview /\ [][NextPreview]_vars

(***************************************************************************)
(* Specification of the order of the checks: participant u1, whose quota   *)
(* is 1, uploads good and malformed files while an admin replaces the      *)
(* canonical answer set (deleteMany, then save).                           *)
(***************************************************************************)
OrderFiles == {BadParse, CsvFile(<<>>), CsvFile(<<Row(1, "A")>>)}

OrderAdmins == {"a1"}

InitOrder ==
    /\ userLimit \in {[u \in Users |-> Null], [u \in Users |-> IF u = "u1" THEN {1} ELSE Null]}
    /\ cred = [u \in Users |-> {[uploadLimit |-> userLimit[u]]}]
    /\ config = {1}
    /\ answers = <<AnswerDoc(<<Row(1, "A")>>)>>
    /\ InitIdle

NextOrder ==
    \/ \E r \in Reqs, u \in LedgerUsers, f \in OrderFiles : UploadStart(r, u, f)
    \/ \E r \in Reqs : UploadFindAnswer(r)
    \/ \E r \in Reqs : UploadCount(r)
    \/ \E r \in Reqs : UploadConfig(r)
    \/ \E r \in Reqs : UploadSave(r)
    \/ \E r \in Reqs : UploadRespond(r)
    \/ \E r \in Reqs : UploadThrow(r)
    \/ \E a \in OrderAdmins : AnswerCsvStart(a, CsvFile(<<Row(1, "A")>>))
    \/ \E a \in OrderAdmins : AnswerCsvDelete(a)
    \/ \E a \in OrderAdmins : AnswerCsvSave(a)
    \/ \E a \in OrderAdmins : AnswerCsvRespond(a)
    \/ \E a \in OrderAdmins : AnswerCsvThrow(a)

SpecOrder == InitOrder /\ [][NextOrder]_vars

(***************************************************************************)
(* Specification of the replacement of the canonical answer set: two       *)
(* admins send POST /answer-csv, one set is stored beforehand.             *)
(***************************************************************************)
ReplaceFiles == {BadParse, CsvFile(<<Row(1, "A")>>), CsvFile(<<Row(1, "A"), Row(2, "B")>>)}

InitReplace ==
    /\ userLimit = [u \in Users |-> Null]
    /\ cred = [u \in Users |-> {[uploadLimit |-> userLimit[u]]}]
    /\ config = Null
    /\ answers = <<AnswerDoc(<<Row(1, "A")>>)>>
    /\ InitIdle

NextReplace ==
    \/ \E a \in Admins, f \in ReplaceFiles : AnswerCsvStart(a, f)
    \/ \E a \in Admins : AnswerCsvDelete(a)
    \/ \E a \in Admins : AnswerCsvSave(a)
    \/ \E a \in Admins : AnswerCsvRespond(a)
    \/ \E a \in Admins : AnswerCsvThrow(a)

SpecReplace == InitReplace /\ [][NextReplace]_vars

(***************************************************************************)
(* Specification of the rank lookup: participant u1 uploads and asks for   *)
(* the leaderboard and the own rank; participant u2 has two submissions or *)
(* none.                                                                   *)
(***************************************************************************)
RankUsers == {"u1"}

\* the file u1 uploads is all right, which ties with the best of u2
RankFiles == {CsvFile(<<Row(1, "A"), Row(2, "B")>>)}

NextRank ==
    \/ \E r \in Reqs, u \in RankUsers, f \in RankFiles : UploadStart(r, u, f)
    \/ \E r \in Reqs : UploadFindAnswer(r)
    \/ \E r \in Reqs : UploadCount(r)
    \/ \E r \in Reqs : UploadSave(r)
    \/ \E r \in Reqs : UploadRespond(r)
    \/ \E me \in {{}, {"u1"}}, param \in 0..1, includeRank \in BOOLEAN :
          LbStart(me, param, includeRank)
    \/ LbAggregate
    \/ LbRank
    \/ LbThrow

SpecRank == InitLB /\ [][NextRank]_vars

(***************************************************************************)
(* Specification of the per-participant limit: an admin changes the        *)
(* uploadLimit of participant u1, who uploads and may log in again.        *)
(***************************************************************************)
LimitUsers == {"u1"}

LimitFiles == {CsvFile(<<Row(1, "A"), Row(2, "B")>>)}

NextLimit ==
    \/ \E r \in Reqs, u \in LimitUsers, f \in LimitFiles : UploadStart(r, u, f)
    \/ \E r \in Reqs : UploadFindAnswer(r)
    \/ \E r \in Reqs : UploadCount(r)
    \/ \E r \in Reqs : UploadConfig(r)
    \/ \E r \in Reqs : UploadSave(r)
    \/ \E r \in Reqs : UploadRespond(r)
    \/ \E u \in LimitUsers, value \in LimitValues : UserPutFind(u, value)
    \/ \E u \in LimitUsers : UserPutSave(u)
    \/ \E u \in LimitUsers : UserThrow(u)
    \/ \E u \in LimitUsers : Login(u)

SpecLimit == InitQuota /\ [][NextLimit]_vars

(***************************************************************************)
(* Specification of the removal of a participant: an admin deletes         *)
(* participant u1 while u1 uploads.                                        *)
(***************************************************************************)
NextDelete ==
    \/ \E r \in Reqs, u \in LimitUsers, f \in LimitFiles : UploadStart(r, u, f)
    \/ \E r \in Reqs : UploadFindAnswer(r)
    \/ \E r \in Reqs : UploadCount(r)
    \/ \E r \in Reqs : UploadConfig(r)
    \/ \E r \in Reqs : UploadSave(r)
    \/ \E r \in Reqs : UploadRespond(r)
    \/ \E u \in LimitUsers : UserDeleteFind(u)
    \/ \E u \in LimitUsers : UserDeleteSubs(u)
    \/ \E u \in LimitUsers : UserThrow(u)

SpecDelete == InitQuota /\ [][NextDelete]_vars

(***************************************************************************)
(* Specification of the life of a submission: u1 uploads while an admin    *)
(* replaces the canonical set, changes the default limit and deletes       *)
(* participant u2, and the leaderboard is read.                            *)
(***************************************************************************)
StoredUsers == {"u2"}

StoredAdmins == {"a1"}

\* the replacement canonical set gives row 2 another label
StoredFiles == {CsvFile(<<Row(1, "A"), Row(2, "A")>>)}

NextStored ==
    \/ \E r \in Reqs, u \in RankUsers, f \in RankFiles : UploadStart(r, u, f)
    \/ \E r \in Reqs : UploadFindAnswer(r)
    \/ \E r \in Reqs : UploadCount(r)
    \/ \E r \in Reqs : UploadSave(r)
    \/ \E r \in Reqs : UploadRespond(r)
    \/ \E a \in StoredAdmins, f \in StoredFiles : AnswerCsvStart(a, f)
    \/ \E a \in StoredAdmins : AnswerCsvDelete(a)
    \/ \E a \in StoredAdmins : AnswerCsvSave(a)
    \/ \E a \in StoredAdmins : AnswerCsvRespond(a)
    \/ \E v \in 1..1 : PutConfig(v)
    \/ \E me \in {{}}, param \in 0..0, includeRank \in {FALSE} :
          LbStart(me, param, includeRank)
    \/ LbAggregate
    \/ \E u \in StoredUsers : UserDeleteFind(u)
    \/ \E u \in StoredUsers : UserDeleteSubs(u)

SpecStored == InitLB /\ [][NextStored]_vars

(***************************************************************************)
(* Properties                                                              *)
(***************************************************************************)
Persisted(r) == \E s \in submissions : s._id = r

Failed(r) == reqs[r].pc = "done" /\ reqs[r].status \in {400, 403, 500}

\* C1: two uploads of one participant that both read the same submission count
\* are never both persisted with the same attemptNumber.
C1_DistinctAttemptNumbers ==
    \A s, t \in submissions :
        (s.userId = t.userId /\ s._id # t._id) => s.attemptNumber # t.attemptNumber

\* C2: an upload that shares no row_id with the canonical set (rowsCompared = 0)
\* fails and persists nothing: no stored Submission has rowsCompared = 0.
C2_NoOverlapRejected ==
    \A s \in submissions : s.rowsCompared > 0

\* C3: a request whose count read is at or above its effective quota ends with
\* 403 and persists nothing; and while a participant's uploads never overlap and
\* the quota is never lowered, the persisted count stays within the quota.
C3_QuotaEnforced ==
    /\ \A r \in Reqs :
          (reqs[r].limit # {} /\ reqs[r].count >= ValueOf(reqs[r].limit))
              => (reqs[r].pc = "done" /\ reqs[r].status = 403 /\ ~Persisted(r))
    /\ \A u \in Users :
          (cred[u] # {} /\ maxInFlight[u] <= 1 /\ quotaTrace[u] # "lowered")
              => CountDocuments(u) <= EffectiveQuota(cred, config, u)

\* C3 witness: a request was turned away with 403 at a full quota, by a
\* participant whose uploads never overlapped and whose quota was never lowered.
C3_Witness ==
    \E r \in Reqs :
        /\ reqs[r].pc = "done" /\ reqs[r].status = 403
        /\ reqs[r].count >= ValueOf(reqs[r].limit)
        /\ maxInFlight[UserOf(r)] = 1
        /\ quotaTrace[UserOf(r)] # "lowered"
        /\ CountDocuments(UserOf(r)) = EffectiveQuota(cred, config, UserOf(r))

\* C4: of several concurrent uploads that all read count = quota - 1, at most
\* one is persisted.
C4_OneWinner ==
    \A r1, r2 \in Reqs :
        (/\ r1 # r2
         /\ reqs[r1].limit # {} /\ reqs[r2].limit # {}
         /\ UserOf(r1) = UserOf(r2)
         /\ reqs[r1].count = ValueOf(reqs[r1].limit) - 1
         /\ reqs[r2].count = ValueOf(reqs[r2].limit) - 1)
            => ~(Persisted(r1) /\ Persisted(r2))

C6_FailureLeavesNothing ==
    \A r \in Reqs : Failed(r) => ~Persisted(r)

\* every id of the canonical set occurs once (the data model's invariant)
UniqueIds(rows) == \A i, j \in DOMAIN rows : rows[i].row_id = rows[j].row_id => i = j

\* C7: for a canonical set of unique ids and any submission, also one that
\* repeats a row_id, rowsCompared, missingRows and extraRows are the sizes of the
\* intersection and the two differences of the sets of canonical and submitted ids.
C7_SetCounts ==
    (cmpResult # {} /\ UniqueIds(cmpAnswer)) =>
        LET res == ValueOf(cmpResult)
            canonical == MapKeys(cmpAnswer)
            submitted == MapKeys(cmpUser)
        IN  /\ res.rowsCompared = Cardinality(canonical \cap submitted)
            /\ res.missingRows = Cardinality(canonical \ submitted)
            /\ res.extraRows = Cardinality(submitted \ canonical)

\* the best submissions of userId under: accuracy descending, f1 descending,
\* attemptNumber ascending
EarliestBest(subs, userId) ==
    {s \in subs :
        /\ s.userId = userId
        /\ \A t \in subs : t.userId = userId =>
              \/ s.accuracy > t.accuracy
              \/ s.accuracy = t.accuracy /\ s.f1 > t.f1
              \/ s.accuracy = t.accuracy /\ s.f1 = t.f1
                    /\ s.attemptNumber <= t.attemptNumber}

\* the step in which the leaderboard list is computed from the collection
Listed == lb.pc = "aggregate" /\ lb'.pc \in {"rank", "done"} /\ lb'.status # 500

\* C8: the entry listed for a participant is the submission with the highest
\* accuracy, then the highest f1, then the smallest attemptNumber.
C8_BestEarliestAttempt ==
    [][Listed =>
         \A i \in DOMAIN lb'.leaderboard :
            \E s \in EarliestBest(submissions, lb'.leaderboard[i].userId) :
                /\ lb'.leaderboard[i].accuracy = s.accuracy
                /\ lb'.leaderboard[i].f1 = s.f1
                /\ lb'.leaderboard[i].attemptNumber = s.attemptNumber]_vars

\* C9: of two entries of a leaderboard response, the one ranked earlier is
\* greater or equal in (accuracy, f1, earliest attempt), lexicographically.
C9_TotalOrder ==
    \A i, j \in DOMAIN lb.leaderboard :
        i < j =>
            LET a == lb.leaderboard[i]
                b == lb.leaderboard[j]
            IN  \/ a.accuracy > b.accuracy
                \/ a.accuracy = b.accuracy /\ a.f1 > b.f1
                \/ a.accuracy = b.accuracy /\ a.f1 = b.f1
                      /\ a.attemptNumber <= b.attemptNumber

\* C10: when the requesting participant is in the returned list, userRank has
\* the rank, accuracy and f1 of that entry, and totalUsers is the number of
\* participants with a submission.
C10_SameRanking ==
    [][(lb.pc = "rank" /\ lb'.pc = "done" /\ lb'.userRank # {}) =>
         LET userRank == ValueOf(lb'.userRank)
         IN  /\ \A i \in DOMAIN lb'.leaderboard :
                    lb'.leaderboard[i].userId = ValueOf(lb'.me) =>
                        /\ userRank.rank = lb'.leaderboard[i].rank
                        /\ userRank.accuracy = lb'.leaderboard[i].accuracy
                        /\ userRank.f1 = lb'.leaderboard[i].f1
             /\ userRank.totalUsers = Cardinality({s.userId : s \in submissions})]_vars

\* C11: a rank lookup for a participant without a persisted submission answers
\* 200 with userRank null (unless the aggregate itself rejects, which is the
\* catch block's 500), and a userRank that is returned never has rank 0.
C11_AbsentRank ==
    [][(lb.pc = "rank" /\ lb'.pc = "done") =>
          /\ CountDocuments(ValueOf(lb.me)) = 0 =>
                \/ lb'.status = 500
                \/ lb'.status = 200 /\ lb'.userRank = {}
          /\ \A userRank \in lb'.userRank : userRank.rank >= 1]_vars

\* C11 witness: u1, who has no submission while u2 has, asked for the own rank
\* and got 200 with userRank null.
C11_Witness ==
    /\ lb.pc = "done" /\ lb.status = 200
    /\ lb.includeRank /\ lb.me = {"u1"}
    /\ CountDocuments("u1") = 0
    /\ submissions # {}
    /\ lb.userRank = {}
    /\ Len(lb.leaderboard) = 1

\* C12: a leaderboard response lists a participant at most once, lists only
\* participants with a persisted submission, has at most limit entries, and its
\* i-th entry has rank i.
C12_WellFormedList ==
    lb.status = 200 =>
        /\ \A i, j \in DOMAIN lb.leaderboard :
              lb.leaderboard[i].userId = lb.leaderboard[j].userId => i = j
        /\ \A i \in DOMAIN lb.leaderboard :
              /\ \E s \in submissions : s.userId = lb.leaderboard[i].userId
              /\ lb.leaderboard[i].rank = i
        /\ Len(lb.leaderboard) <= lb.limit
        /\ lb.totalEntries = Len(lb.leaderboard)

\* C12 witness: two participants with equal accuracy and f1 are listed with
\* ranks 1 and 2.
C12_Witness ==
    /\ lb.status = 200
    /\ Len(lb.leaderboard) = 2
    /\ lb.leaderboard[1].accuracy = lb.leaderboard[2].accuracy
    /\ lb.leaderboard[1].f1 = lb.leaderboard[2].f1
    /\ lb.leaderboard[1].rank = 1 /\ lb.leaderboard[2].rank = 2

\* the step in which upload r resolves its effective quota
Resolves(r) == reqs[r].limit = {} /\ reqs'[r].limit # {}

\* C13: the quota an upload resolves is the uploadLimit the request carries for
\* the participant when that is set, otherwise the stored defaultUploadLimit as
\* it is at the moment the request reads it, and 15 when none is stored.
C13_EffectiveQuota ==
    [][\A r \in Reqs : Resolves(r) =>
          LET own == ValueOf(reqs[r].user).uploadLimit
          IN  reqs'[r].limit =
                  IF own # {} THEN own
                  ELSE IF config # {} THEN config
                  ELSE {15}]_vars

\* C13 witness: a participant without an own limit was checked against 15
\* while no default was stored.
C13_Witness ==
    \E r \in Reqs :
        /\ reqs[r].limit = {15}
        /\ ValueOf(reqs[r].user).uploadLimit = {}
        /\ userLimit[UserOf(r)] = {}
        /\ config = {}

Malformed(file) == file.kind \in {"badparse", "badcols"} \/ Len(file.rows) = 0

\* C14: the answer set is looked up before the quota and before parsing, and
\* the quota is checked before parsing. A request that finds no answer set ends
\* as "not configured" without a count or a limit having been read (or as 500
\* when the lookup itself rejects); a request whose count has reached its limit
\* ends as "limit reached", whatever its file; and a request is only ever
\* rejected for its file after it found an answer set and was under its limit.
C14_CheckOrder ==
    [][\A r \in Reqs :
          /\ (reqs[r].pc = "findAnswer" /\ reqs'[r].pc # "findAnswer" /\ Len(answers) = 0) =>
                /\ reqs'[r].pc = "done"
                /\ \/ reqs'[r].status = 400 /\ reqs'[r].error = NotConfiguredError
                   \/ reqs'[r].status = 500
                /\ reqs'[r].limit = {} /\ reqs'[r].count = 0
          /\ (Resolves(r) /\ reqs'[r].count >= ValueOf(reqs'[r].limit)) =>
                /\ reqs'[r].pc = "done"
                /\ reqs'[r].status = 403 /\ reqs'[r].error = LimitError
          /\ (reqs[r].pc # "done" /\ reqs'[r].pc = "done"
                 /\ reqs'[r].error \in {ParseError, ColumnsError, EmptyError}) =>
                /\ Len(reqs[r].answer) > 0
                /\ reqs'[r].limit # {}
                /\ reqs'[r].count < ValueOf(reqs'[r].limit)]_vars

\* C14 witness: a participant who has used the whole quota sent a malformed
\* file while no answer set was stored, and was told "not configured".
C14_Witness ==
    \E r \in Reqs :
        /\ reqs[r].pc = "done" /\ reqs[r].error = NotConfiguredError
        /\ Malformed(reqs[r].file)
        /\ CountDocuments(UserOf(r)) >= EffectiveQuota(cred, config, UserOf(r))
        /\ Len(answers) = 0

\* the i-th element, in order, of a set of indices
Nth(indices, i) == CHOOSE x \in indices : Cardinality({y \in indices : y <= x}) = i

\* C15: the preview is the first min(15, #mismatches) mismatching comparison
\* rows in comparison order, then the first min(5, #matches) matching rows in
\* comparison order; it has at most 20 entries and no matching row comes
\* before a mismatching one.
C15_PreviewSelection ==
    cmpResult # {} =>
        LET preview == ValueOf(cmpResult).fileDataPreview
            comparisons == compareCSVData(cmpUser, cmpAnswer).comparisons
            wrong == {i \in DOMAIN comparisons : ~comparisons[i].match}
            right == {i \in DOMAIN comparisons : comparisons[i].match}
            nWrong == IF Cardinality(wrong) < 15 THEN Cardinality(wrong) ELSE 15
            nRight == IF Cardinality(right) < 5 THEN Cardinality(right) ELSE 5
        IN  /\ Len(preview) = nWrong + nRight
            /\ Len(preview) <= 20
            /\ \A j \in 1..nWrong : preview[j] = comparisons[Nth(wrong, j)]
            /\ \A j \in 1..nRight : preview[nWrong + j] = comparisons[Nth(right, j)]
            /\ \A a, b \in DOMAIN preview : (a < b /\ preview[a].match) => preview[b].match

\* C15 witness: more than 15 mismatches and more than 5 matches, interleaved,
\* gave a preview of exactly 20 entries.
C15_Witness ==
    /\ cmpResult # {}
    /\ Cardinality({i \in DOMAIN cmpUser : cmpUser[i].label # "A"}) > 15
    /\ Cardinality({i \in DOMAIN cmpUser : cmpUser[i].label = "A"}) > 5
    /\ cmpUser[1].label # cmpUser[Len(cmpUser)].label
    /\ cmpUser[1].label = "A"
    /\ Len(ValueOf(cmpResult).fileDataPreview) = 20

(***************************************************************************)
(* The metrics as the specification defines them, from the triples         *)
(***************************************************************************)
\* the triples computeMetrics was given, and what it returned
Triples == ValueOf(cmpResult).comparisons

Returned == ValueOf(cmpResult).metrics

TruePositives(l) == Cardinality({i \in DOMAIN Triples : Triples[i].predicted = l /\ Triples[i].actual = l})

\* TP + FP and TP + FN of label l
PredictedAs(l) == Cardinality({i \in DOMAIN Triples : Triples[i].predicted = l})

ActualIs(l) == Cardinality({i \in DOMAIN Triples : Triples[i].actual = l})

Universe == {l \in MetricLabels : PredictedAs(l) > 0 \/ ActualIs(l) > 0}

RECURSIVE SumOver(_, _)
SumOver(f, S) ==
    IF S = {} THEN 0 ELSE LET x == CHOOSE y \in S : TRUE IN f[x] + SumOver(f, S \ {x})

RECURSIVE ProductOver(_, _)
ProductOver(f, S) ==
    IF S = {} THEN 1 ELSE LET x == CHOOSE y \in S : TRUE IN f[x] * ProductOver(f, S \ {x})

\* the mean over the universe of TruePositives(l) / den[l], taken as 0 where
\* den[l] = 0, as a reduced ratio
MacroMean(den) ==
    LET d == [l \in Universe |-> IF den[l] = 0 THEN 1 ELSE den[l]]
        num == SumOver([l \in Universe |->
                          TruePositives(l) * ProductOver(d, Universe \ {l})], Universe)
    IN  Norm(<<num, Cardinality(Universe) * ProductOver(d, Universe)>>)

MacroPrecision == MacroMean([l \in Universe |-> PredictedAs(l)])

MacroRecall == MacroMean([l \in Universe |-> ActualIs(l)])

\* C16: for a non-empty list, precision and recall are the unweighted means
\* over every label that occurs as predicted or as actual of TP/(TP+FP) and
\* TP/(TP+FN), with 0 for a zero denominator (to six decimals).
C16_MacroAverages ==
    (cmpResult # {} /\ Len(Triples) > 0) =>
        /\ Returned.precision = ToFixed(MacroPrecision)
        /\ Returned.recall = ToFixed(MacroRecall)

\* C16 witness: label B occurs only as a prediction; with A right once,
\* precision is (1 + 0) / 2 and recall (1/2 + 0) / 2.
C16_Witness ==
    /\ cmpResult # {} /\ Len(Triples) = 2
    /\ "B" \in Universe /\ ActualIs("B") = 0
    /\ Returned.precision = 500000
    /\ Returned.recall = 250000

\* C17: for a non-empty list, matches is the number of triples with predicted =
\* actual and accuracy is matches / total (to six decimals); accuracy is 1
\* exactly when every triple matches and 0 exactly when none does.
C17_Accuracy ==
    (cmpResult # {} /\ Len(Triples) > 0) =>
        LET hits == Cardinality({i \in DOMAIN Triples : Triples[i].predicted = Triples[i].actual})
        IN  /\ Returned.matches = hits
            /\ Returned.accuracy = ToFixed(<<hits, Len(Triples)>>)
            /\ 2 * Returned.accuracy * Len(Triples) - 2 * hits * 1000000 <= Len(Triples)
            /\ 2 * hits * 1000000 - 2 * Returned.accuracy * Len(Triples) <= Len(Triples)
            /\ Returned.accuracy = 1000000 <=> hits = Len(Triples)
            /\ Returned.accuracy = 0 <=> hits = 0

\* C17 witness: two of three triples match: accuracy 0.666667.
C17_Witness ==
    /\ cmpResult # {} /\ Len(Triples) = 3
    /\ Returned.matches = 2
    /\ Returned.accuracy = 666667

\* C18: f1 is 2 * precision * recall / (precision + recall) of the macro
\* precision and recall (to six decimals), and 0 when both are 0.
C18_F1 ==
    (cmpResult # {} /\ Len(Triples) > 0) =>
        LET p == MacroPrecision
            r == MacroRecall
        IN  IF p[1] = 0 /\ r[1] = 0 THEN Returned.f1 = 0
            ELSE Returned.f1 =
                   ToFixed(Norm(<<2 * p[1] * r[1], p[1] * r[2] + r[1] * p[2]>>))

\* C18 witness: no triple matches, precision and recall are 0 and so is f1.
C18_Witness ==
    /\ cmpResult # {} /\ Len(Triples) > 0
    /\ Returned.precision = 0 /\ Returned.recall = 0
    /\ Returned.f1 = 0

\* C19: for an empty list of triples, accuracy, precision, recall, f1 and
\* matches are all 0.
C19_EmptyList ==
    (cmpResult # {} /\ Len(Triples) = 0) =>
        /\ Returned.accuracy = 0 /\ Returned.precision = 0
        /\ Returned.recall = 0 /\ Returned.f1 = 0
        /\ Returned.matches = 0

\* C19 witness: a submission that shares no row_id with the canonical set was
\* compared: no triple, all five values 0.
C19_Witness ==
    /\ cmpResult # {} /\ Len(cmpUser) > 0 /\ Len(cmpAnswer) > 0
    /\ Len(Triples) = 0
    /\ Returned = [accuracy |-> 0, precision |-> 0, recall |-> 0, f1 |-> 0, matches |-> 0]

\* C20: the predicted label of a comparison is the label of the last row of
\* the submission with that row_id, and every row_id of the submission has as
\* many comparisons as the canonical set has rows with it.
C20_LastWriteWins ==
    cmpResult # {} =>
        /\ \A k \in DOMAIN Triples : \A i \in DOMAIN cmpUser :
              (/\ cmpUser[i].row_id = Triples[k].row_id
               /\ \A j \in DOMAIN cmpUser : j > i => cmpUser[j].row_id # Triples[k].row_id)
                  => Triples[k].predicted = cmpUser[i].label
        /\ \A i \in DOMAIN cmpUser :
              Cardinality({k \in DOMAIN Triples : Triples[k].row_id = cmpUser[i].row_id})
                  = Cardinality({k \in DOMAIN cmpAnswer : cmpAnswer[k].row_id = cmpUser[i].row_id})

\* C20 witness: the submission has row_id 1 twice with different labels and
\* the canonical set has it once: one comparison, with the later label.
C20_Witness ==
    /\ cmpResult # {}
    /\ Len(cmpUser) = 2
    /\ cmpUser[1].row_id = cmpUser[2].row_id /\ cmpUser[1].label # cmpUser[2].label
    /\ Len(cmpAnswer) = 1
    /\ Len(Triples) = 1
    /\ Triples[1].predicted = cmpUser[2].label

\* the rows of seq in another order
Reorderings(seq) ==
    {[i \in DOMAIN seq |-> seq[p[i]]] :
        p \in {q \in [DOMAIN seq -> DOMAIN seq] : \A i, j \in DOMAIN seq : q[i] = q[j] => i = j}}

\* the label of the last row of rows that has the id
LastLabel(rows, id) ==
    LET at == {i \in DOMAIN rows : rows[i].row_id = id}
    IN  {rows[i].label : i \in {j \in at : \A k \in at : k <= j}}

\* C21: the comparisons come in the order of the canonical rows (one for every
\* canonical row whose id the submission has), and a submission with the same
\* rows in another order and the same last label for every id gives the
\* identical sequence of comparisons.
C21_CanonicalOrder ==
    cmpResult # {} =>
        /\ [k \in DOMAIN Triples |-> Triples[k].row_id]
              = SelectSeq([i \in DOMAIN cmpAnswer |-> cmpAnswer[i].row_id],
                          LAMBDA id : \E j \in DOMAIN cmpUser : cmpUser[j].row_id = id)
        /\ \A other \in Reorderings(cmpUser) :
              (\A i \in DOMAIN cmpUser :
                    LastLabel(other, cmpUser[i].row_id) = LastLabel(cmpUser, cmpUser[i].row_id))
                  => compareCSVData(other, cmpAnswer).comparisons = Triples

\* C21 witness: the submission has the rows 2, 1 and the canonical set 1, 2:
\* the comparisons are for 1, then 2.
C21_Witness ==
    /\ cmpResult # {}
    /\ Len(cmpUser) = 2 /\ Len(cmpAnswer) = 2
    /\ cmpUser[1].row_id = cmpAnswer[2].row_id
    /\ cmpUser[2].row_id = cmpAnswer[1].row_id
    /\ cmpAnswer[1].row_id # cmpAnswer[2].row_id
    /\ Len(Triples) = 2
    /\ Triples[1].row_id = cmpAnswer[1].row_id /\ Triples[2].row_id = cmpAnswer[2].row_id

\* C22: once a canonical answer set has been uploaded, exactly one is stored
\* in every state, the states in the middle of a replacement included.
C22_ExactlyOneAnswerSet ==
    Len(answers) = 1

\* C30: when two replacements have both completed with 200, exactly one
\* canonical answer set is stored (the one saved last).
C30_LastSaveWins ==
    (\A a \in Admins : adminReqs[a].pc = "done" /\ adminReqs[a].status = 200)
        => Len(answers) = 1

\* C24: the list is computed from the collection as it is when the request is
\* served: every participant with a persisted submission is listed (up to the
\* limit), and the accuracy listed for a participant is the largest accuracy of
\* the submissions of that participant persisted at that time.
C24_ReflectsPersisted ==
    [][Listed =>
          /\ \A i \in DOMAIN lb'.leaderboard :
                LET mine == {s \in submissions : s.userId = lb'.leaderboard[i].userId}
                IN  /\ \E s \in mine : s.accuracy = lb'.leaderboard[i].accuracy
                    /\ \A s \in mine : s.accuracy <= lb'.leaderboard[i].accuracy
          /\ Len(lb'.leaderboard) < lb.limit =>
                \A s \in submissions :
                    \E i \in DOMAIN lb'.leaderboard : lb'.leaderboard[i].userId = s.userId]_vars

\* C24 witness: u1's upload was saved, then the leaderboard was asked for and
\* lists u1 with it, and u2 with the better of two submissions.
C24_Witness ==
    /\ lb.pc = "done" /\ lb.status = 200
    /\ Len(lb.leaderboard) = 2
    /\ \E s, t \in submissions : s.userId = t.userId /\ s.accuracy < t.accuracy
    /\ \A i \in DOMAIN lb.leaderboard : lb.leaderboard[i].accuracy = 1000000
    /\ CountDocuments("u1") = 1

\* the attempt numbers of the persisted submissions of u
AttemptNumbers(u) == {s.attemptNumber : s \in {t \in submissions : t.userId = u}}

C26_CountsAddUp ==
    cmpResult # {} =>
        LET res == ValueOf(cmpResult)
        IN  /\ res.rowsCompared + res.missingRows = res.rowsInCanonical
            /\ res.rowsInCanonical = Len(cmpAnswer)
            /\ Returned.matches <= res.rowsCompared
            /\ res.rowsCompared - Returned.matches
                  = Cardinality({k \in DOMAIN Triples : ~Triples[k].match})
            /\ \A k \in DOMAIN Triples :
                  Triples[k].match <=> Triples[k].predicted = Triples[k].actual

\* C26 witness: of two canonical rows one is missing from the submission and
\* the other is compared and wrong.
C26_Witness ==
    /\ cmpResult # {}
    /\ ValueOf(cmpResult).rowsInCanonical = 2
    /\ ValueOf(cmpResult).rowsCompared = 1
    /\ ValueOf(cmpResult).missingRows = 1
    /\ Returned.matches = 0

C23_Immutable ==
    [][\A s \in submissions :
          \/ s \in submissions'
          \/ /\ \A t \in submissions' : t._id # s._id
             /\ s.userId \notin users'
             /\ userReqs[s.userId].op = "delete"]_vars

\* C23 witness: the canonical set was replaced and the default limit changed
\* after u2's submissions were stored; they are there with their metrics, and
\* an upload of the same rows scored against the new set has other metrics.
C23_Witness ==
    /\ adminReqs["a1"].pc = "done" /\ adminReqs["a1"].status = 200
    /\ config = {1}
    /\ lb.pc = "done"
    /\ Earlier \subseteq submissions
    /\ \E s \in submissions : s.userId = "u1" /\ s.accuracy = 500000

\* C28: an upload that arrives after PUT /admin/users/:id has answered 200 is
\* checked against the uploadLimit now stored for the participant.
C28_NewLimitApplies ==
    [][\A r \in Reqs :
          (/\ reqs[r].pc = "idle" /\ reqs'[r].pc # "idle"
           /\ \E u \in Users : /\ ValueOf(reqs'[r].user).id = u
                                /\ userReqs[u].op = "put"
                                /\ userReqs[u].pc = "done" /\ userReqs[u].status = 200)
          => \A u \in Users :
                ValueOf(reqs'[r].user).id = u
                    => ValueOf(reqs'[r].user).uploadLimit = userLimit[u]]_vars

\* no upload and no request on a participant is in flight
Quiescent ==
    /\ \A r \in Reqs : reqs[r].pc \in {"idle", "done"}
    /\ \A u \in Users : userReqs[u].pc \in {"idle", "done"}

\* C29: when nothing is in flight and every deletion has answered 200, every
\* persisted submission belongs to a participant that exists.
C29_NoOrphans ==
    (Quiescent /\ \A u \in Users : userReqs[u].op = "delete" => userReqs[u].status = 200)
        => \A s \in submissions : s.userId \in users

====
